---- MODULE Spec2Model ----
(***************************************************************************)
(* Model of the live push-up analysis session (src/main.py,               *)
(* websocket_live_stream) and of the frame pipeline and rep state machine *)
(* it drives (src/process_pushup.py).                                      *)
(*                                                                         *)
(* count is kept in half-reps: the value 1 of the model is the value 0.5  *)
(* of the program, so "count += 0.5" is "count + Half" and int(count) is  *)
(* count \div 2.                                                           *)
(*                                                                         *)
(* A session runs in one asyncio task: it yields only at the awaits       *)
(* (receive_bytes, send_bytes, send_text).  Each action of the model is   *)
(* the code between two awaits.                                            *)
(***************************************************************************)
EXTENDS Integers, Sequences, FiniteSets

\* ---------------------------------------------------------------- bounds
\* frames a session receives before the client stops sending
MaxFrames == 20
\* half-reps after which the rep state machine specification stops
MaxCount == 4
\* length of the window of past frames the rep state machine
\* specification remembers
MaxRun == 3

\* ------------------------------------------------------------- constants
\* count += 0.5, in half-reps
Half == 1
\* max_errors = 10
max_errors == 10
\* if frame_count % 10 == 0: send_text
TelemetryEvery == 10

\* joint angles on both sides of every threshold of the state machine
\* (elbow <= 90, elbow > 160, shoulder > 40, hip > 160)
ElbowAngles == {90, 91, 160, 161}
ShoulderAngles == {40, 41}
HipAngles == {160, 161}

\* what one inbound message turns out to be:
\*   "bad"            cv2.imdecode returns None (or raises)
\*   "nopose"         the detector finds no landmarks
\*   "pose"           landmarks found, the three angles computed
\*   "angle_error"    landmarks found, findAngle raises
\*   "detector_error" findPose / findPosition raises inside process_frame
\*   "raise"          process_frame itself raises to its caller
\* draw: whether a drawing call of draw_ui raises on this frame ("ok" |
\* "raise"); fail_at, for an "angle_error" frame: 1, 2, 3 when the findAngle
\* call of the elbow, the shoulder, the hip raises, 4 when the three angles
\* are computed and np.interp or the state update raises
FrameOf(k, e, s, h) ==
    [kind |-> k, elbow |-> e, shoulder |-> s, hip |-> h, draw |-> "ok",
     fail_at |-> IF k = "angle_error" THEN 1 ELSE 0]
NoData == FrameOf("none", 0, 0, 0)
\* the poses a session is fed: down, up, arms extended with the shoulder
\* angle too small, arms bent with the hip sagging (the rep state machine
\* is run on every combination of the angles above on its own, below)
SessionPoses ==
    {FrameOf("pose", 90, 41, 161), FrameOf("pose", 161, 41, 161),
     FrameOf("pose", 161, 40, 161), FrameOf("pose", 90, 41, 160)}
Frames ==
    {FrameOf(k, 0, 0, 0) :
        k \in {"bad", "nopose", "angle_error", "detector_error", "raise"}}
    \cup SessionPoses

VARIABLES
    pc,             \* where the session is: "receive" | "received" |
                    \* "send_bytes" | "send_text" | "closed"
    data,           \* the message received and not yet handled
    count, direction, form,
    frame_count, error_count,
    correct_reps, incorrect_reps,
    feedback,       \* feedback text of the last handled frame
    processed_img,  \* what the image handed to the encoder shows
    sent,           \* last message sent for the current frame
    processed,      \* frames decoded and run through the pipeline so far
    fails_in_row,   \* inbound frames that failed to decode since the last
                    \* successful decode
    hist,           \* rep state machine specification: the last frames
    encoded,        \* cv2.imencode of the current frame: "none" | "ok" |
                    \* "failed"
    draw_raised,    \* a drawing call of draw_ui raised on the current frame
    text_msg,       \* the telemetry record sent for the current frame
    log,            \* what the session logged on its way out of the loop
    call,           \* pipeline specification: the last call of
                    \* process_frame, its arguments and what it returned
    sess,           \* concurrent sessions: each session's position and
                    \* locals
    detector,       \* concurrent sessions: the state the shared
                    \* poseDetector keeps between its calls
    running         \* concurrent sessions: the session the event loop is
                    \* running

conc_vars == <<sess, detector, running>>

\* variables the session actions leave alone
other_vars == <<hist, call, conc_vars>>

vars == <<pc, data, count, direction, form, frame_count, error_count,
          correct_reps, incorrect_reps, feedback, processed_img, sent,
          processed, fails_in_row, hist, encoded, draw_raised, text_msg,
          log, call, sess, detector, running>>

\* ------------------------------------------------ src/process_pushup.py
\* faulty variant: the down phase does not look at the hip
DownConditionNoHip(elbow, hip) == elbow <= 90

DownCondition(elbow, hip) == elbow <= 90 /\ hip > 160
UpCondition(elbow, shoulder, hip) == elbow > 160 /\ shoulder > 40 /\ hip > 160

\* faulty variant: the up branch awards a whole rep (count += 1)
update_DoubleUp(elbow, shoulder, hip, direction_, count_, form_) ==
    LET form1 == IF UpCondition(elbow, shoulder, hip) THEN 1 ELSE form_
    IN  IF form1 = 1
        THEN IF DownCondition(elbow, hip)
             THEN [feedback |-> "Good - Push Up",
                   count |-> IF direction_ = 0 THEN count_ + Half ELSE count_,
                   direction |-> IF direction_ = 0 THEN 1 ELSE direction_,
                   form |-> form1]
             ELSE IF UpCondition(elbow, shoulder, hip)
             THEN [feedback |-> "Good - Go Down",
                   count |-> IF direction_ = 1 THEN count_ + 2 * Half ELSE count_,
                   direction |-> IF direction_ = 1 THEN 0 ELSE direction_,
                   form |-> form1]
             ELSE [feedback |-> "Fix Form", count |-> count_,
                   direction |-> direction_, form |-> form1]
        ELSE [feedback |-> "Get into starting position", count |-> count_,
              direction |-> direction_, form |-> form1]

\* faulty variant: the "Fix Form" branch drops form back to 0
update_FormReset(elbow, shoulder, hip, direction_, count_, form_) ==
    LET form1 == IF UpCondition(elbow, shoulder, hip) THEN 1 ELSE form_
    IN  IF form1 = 1
        THEN IF DownCondition(elbow, hip)
             THEN [feedback |-> "Good - Push Up",
                   count |-> IF direction_ = 0 THEN count_ + Half ELSE count_,
                   direction |-> IF direction_ = 0 THEN 1 ELSE direction_,
                   form |-> form1]
             ELSE IF UpCondition(elbow, shoulder, hip)
             THEN [feedback |-> "Good - Go Down",
                   count |-> IF direction_ = 1 THEN count_ + Half ELSE count_,
                   direction |-> IF direction_ = 1 THEN 0 ELSE direction_,
                   form |-> form1]
             ELSE [feedback |-> "Fix Form", count |-> count_,
                   direction |-> direction_, form |-> 0]
        ELSE [feedback |-> "Get into starting position", count |-> count_,
              direction |-> direction_, form |-> form1]

\* faulty variant: the up branch forgets direction = 0
update_UpKeepsDirection(elbow, shoulder, hip, direction_, count_, form_) ==
    LET form1 == IF UpCondition(elbow, shoulder, hip) THEN 1 ELSE form_
    IN  IF form1 = 1
        THEN IF DownCondition(elbow, hip)
             THEN [feedback |-> "Good - Push Up",
                   count |-> IF direction_ = 0 THEN count_ + Half ELSE count_,
                   direction |-> IF direction_ = 0 THEN 1 ELSE direction_,
                   form |-> form1]
             ELSE IF UpCondition(elbow, shoulder, hip)
             THEN [feedback |-> "Good - Go Down",
                   count |-> IF direction_ = 1 THEN count_ + Half ELSE count_,
                   direction |-> direction_,
                   form |-> form1]
             ELSE [feedback |-> "Fix Form", count |-> count_,
                   direction |-> direction_, form |-> form1]
        ELSE [feedback |-> "Get into starting position", count |-> count_,
              direction |-> direction_, form |-> form1]

\* faulty variant: the down branch counts without testing direction
update_DownUngated(elbow, shoulder, hip, direction_, count_, form_) ==
    LET form1 == IF UpCondition(elbow, shoulder, hip) THEN 1 ELSE form_
    IN  IF form1 = 1
        THEN IF DownCondition(elbow, hip)
             THEN [feedback |-> "Good - Push Up",
                   count |-> count_ + Half,
                   direction |-> IF direction_ = 0 THEN 1 ELSE direction_,
                   form |-> form1]
             ELSE IF UpCondition(elbow, shoulder, hip)
             THEN [feedback |-> "Good - Go Down",
                   count |-> IF direction_ = 1 THEN count_ + Half ELSE count_,
                   direction |-> IF direction_ = 1 THEN 0 ELSE direction_,
                   form |-> form1]
             ELSE [feedback |-> "Fix Form", count |-> count_,
                   direction |-> direction_, form |-> form1]
        ELSE [feedback |-> "Get into starting position", count |-> count_,
              direction |-> direction_, form |-> form1]

update_feedback_and_count(elbow, shoulder, hip, direction_, count_, form_) ==
    LET form1 == IF UpCondition(elbow, shoulder, hip) THEN 1 ELSE form_
    IN  IF form1 = 1
        THEN IF DownCondition(elbow, hip)
             THEN [feedback |-> "Good - Push Up",
                   count |-> IF direction_ = 0 THEN count_ + Half ELSE count_,
                   direction |-> IF direction_ = 0 THEN 1 ELSE direction_,
                   form |-> form1]
             ELSE IF UpCondition(elbow, shoulder, hip)
             THEN [feedback |-> "Good - Go Down",
                   count |-> IF direction_ = 1 THEN count_ + Half ELSE count_,
                   direction |-> IF direction_ = 1 THEN 0 ELSE direction_,
                   form |-> form1]
             ELSE [feedback |-> "Fix Form", count |-> count_,
                   direction |-> direction_, form |-> form1]
        ELSE [feedback |-> "Get into starting position", count |-> count_,
              direction |-> direction_, form |-> form1]

\* the result of process_frame: the image returned, the new rep state, the
\* feedback text, and whether the call raised instead of returning
Returned(img, count_, direction_, form_, feedback_) ==
    [raised |-> FALSE, img |-> img, count |-> count_,
     direction |-> direction_, form |-> form_, feedback |-> feedback_,
     elbow_angle |-> 0, shoulder_angle |-> 0, hip_angle |-> 0]

\* faulty variant: draw_ui without its try/except
draw_ui_Propagates(draw) == IF draw = "raise" THEN "raise" ELSE "ui"

\* draw_ui: what the image shows afterwards.  An exception of a drawing
\* call is caught and logged inside draw_ui: the overlays drawn before it
\* stay, the call returns normally.
draw_ui(draw) == IF draw = "raise" THEN "ui_partial" ELSE "ui"

\* steps 6 and 7 of process_frame: draw_ui(img_copy, ..., count, feedback,
\* form, elbow_angle, shoulder_angle, hip_angle), outside every try of
\* process_frame, then return
DrawAndReturn(img, e, s, h, count_, direction_, form_, feedback_) ==
    LET shown == draw_ui(img.draw)
    IN  IF shown = "raise"
        THEN [Returned("none", count_, direction_, form_, feedback_)
                 EXCEPT !.raised = TRUE]
        ELSE [Returned(shown, count_, direction_, form_, feedback_)
                 EXCEPT !.elbow_angle = e, !.shoulder_angle = s,
                        !.hip_angle = h]

\* faulty variant: a frame without a pose starts the rep tracking over
process_frame_NoPoseResets(img, count_, direction_, form_) ==
    CASE img.kind = "bad" ->
            Returned("Invalid Frame", count_, direction_, form_,
                     "Move into frame")
      [] img.kind = "raise" ->
            [Returned("none", count_, direction_, form_, "Processing error")
                EXCEPT !.raised = TRUE]
      [] img.kind = "detector_error" ->
            Returned("Error", count_, direction_, form_, "Processing error")
      [] img.kind = "nopose" ->
            DrawAndReturn(img, 0, 0, 0, count_, 0, 0, "Move into frame")
      [] img.kind = "angle_error" ->
            DrawAndReturn(img,
                          IF img.fail_at > 1 THEN img.elbow ELSE 0,
                          IF img.fail_at > 2 THEN img.shoulder ELSE 0,
                          IF img.fail_at > 3 THEN img.hip ELSE 0,
                          count_, direction_, form_, "Error detecting pose")
      [] OTHER ->
            LET u == update_feedback_and_count(img.elbow, img.shoulder,
                                               img.hip, direction_, count_,
                                               form_)
            IN  DrawAndReturn(img, img.elbow, img.shoulder, img.hip,
                              u.count, u.direction, u.form, u.feedback)

\* faulty variant: no try around the angles, so that a failure there is
\* handled as a critical error of process_frame, without the UI
process_frame_AngleErrorEscapes(img, count_, direction_, form_) ==
    CASE img.kind = "bad" ->
            Returned("Invalid Frame", count_, direction_, form_,
                     "Move into frame")
      [] img.kind = "raise" ->
            [Returned("none", count_, direction_, form_, "Processing error")
                EXCEPT !.raised = TRUE]
      [] img.kind = "detector_error" ->
            Returned("Error", count_, direction_, form_, "Processing error")
      [] img.kind = "nopose" ->
            DrawAndReturn(img, 0, 0, 0, count_, direction_, form_,
                          "Move into frame")
      [] img.kind = "angle_error" ->
            Returned("Error", count_, direction_, form_, "Processing error")
      [] OTHER ->
            LET u == update_feedback_and_count(img.elbow, img.shoulder,
                                               img.hip, direction_, count_,
                                               form_)
            IN  DrawAndReturn(img, img.elbow, img.shoulder, img.hip,
                              u.count, u.direction, u.form, u.feedback)

process_frame(img, count_, direction_, form_) ==
    CASE img.kind = "bad" ->
            Returned("Invalid Frame", count_, direction_, form_,
                     "Move into frame")
      [] img.kind = "raise" ->
            [Returned("none", count_, direction_, form_, "Processing error")
                EXCEPT !.raised = TRUE]
      [] img.kind = "detector_error" ->
            Returned("Error", count_, direction_, form_, "Processing error")
      [] img.kind = "nopose" ->
            DrawAndReturn(img, 0, 0, 0, count_, direction_, form_,
                          "Move into frame")
      [] img.kind = "angle_error" ->
            DrawAndReturn(img,
                          IF img.fail_at > 1 THEN img.elbow ELSE 0,
                          IF img.fail_at > 2 THEN img.shoulder ELSE 0,
                          IF img.fail_at > 3 THEN img.hip ELSE 0,
                          count_, direction_, form_, "Error detecting pose")
      [] OTHER ->
            LET u == update_feedback_and_count(img.elbow, img.shoulder,
                                               img.hip, direction_, count_,
                                               form_)
            IN  DrawAndReturn(img, img.elbow, img.shoulder, img.hip,
                              u.count, u.direction, u.form, u.feedback)

\* ----------------------------------------------------------- src/main.py
\* the concurrent connections, each running websocket_live_stream
Sessions == {1, 2}

\* a session after accept(): suspended in receive_bytes, with the locals of
\* process_frame as its entry sets them
FreshSession ==
    [pc |-> "receive", img |-> NoData, count |-> 0, direction |-> 0,
     form |-> 0, lmList |-> <<>>, elbow_angle |-> 0, shoulder_angle |-> 0,
     hip_angle |-> 0]

\* detector = pm.poseDetector(): no results, no landmarks
FreshDetector == [results |-> NoData, lmList |-> <<>>]

Init ==
    /\ pc = "receive"
    /\ data = NoData
    /\ count = 0
    /\ direction = 0
    /\ form = 0
    /\ frame_count = 0
    /\ error_count = 0
    /\ correct_reps = 0
    /\ incorrect_reps = 0
    /\ feedback = "none"
    /\ processed_img = "none"
    /\ sent = "none"
    /\ processed = 0
    /\ fails_in_row = 0
    /\ hist = <<>>
    /\ encoded = "none"
    /\ draw_raised = FALSE
    /\ text_msg = <<>>
    /\ log = <<>>
    /\ call = <<>>
    /\ sess = [s \in Sessions |-> FreshSession]
    /\ detector = FreshDetector
    /\ running = 1

\* data = await websocket.receive_bytes(); frame_count += 1
Receive ==
    /\ pc = "receive"
    /\ frame_count < MaxFrames
    /\ \E d \in Frames : data' = d
    /\ frame_count' = frame_count + 1
    /\ pc' = "received"
    /\ sent' = "none"
    /\ encoded' = "none"
    /\ draw_raised' = FALSE
    /\ text_msg' = <<>>
    /\ UNCHANGED <<count, direction, form, error_count, correct_reps,
                   incorrect_reps, feedback, processed_img, processed,
                   fails_in_row, log, other_vars>>

\* how the loop is left when an await of the loop raises exc: both
\* receive_bytes and the sends sit in a try whose "except Exception" breaks,
\* and WebSocketDisconnect is an Exception, so nothing reaches the handlers
\* of the outer try
InnerExcept(exc) == "break"

\* what is logged on the way out: the "except WebSocketDisconnect" handler
\* logs the session stats with the duration, the "except Exception" handler
\* the unexpected error, and the finally block logs frames and reps
SessionEndLog(exit) ==
    CASE exit = "WebSocketDisconnect" ->
            <<"Session Stats: frames, reps, duration",
              "session ended: frames, reps">>
      [] exit = "Exception" ->
            <<"Unexpected error", "session ended: frames, reps">>
      [] OTHER -> <<"session ended: frames, reps">>

Exceptions == {"WebSocketDisconnect", "RuntimeError"}

\* receive_bytes raises (the client disconnected, or the transport failed)
ReceiveFail ==
    /\ pc = "receive"
    /\ pc' = "closed"
    /\ \E exc \in Exceptions : log' = log \o SessionEndLog(InnerExcept(exc))
    /\ UNCHANGED <<data, count, direction, form, frame_count, error_count,
                   correct_reps, incorrect_reps, feedback, processed_img,
                   sent, processed, fails_in_row, encoded, draw_raised,
                   text_msg, other_vars>>

\* frame = cv2.imdecode(...): None for a message that is not an image
decode(d) == IF d.kind = "bad" THEN "None" ELSE "image"

\* faulty variant: a successful decode leaves the error counter alone
ErrorCountNoReset(decoded, error_count_) ==
    IF decoded THEN error_count_ ELSE error_count_ + 1

\* error_count after the decode step: += 1 on a failure, = 0 on a success
ErrorCountAfterDecode(decoded, error_count_) ==
    IF decoded THEN 0 ELSE error_count_ + 1

\* the frame does not decode: count the error, close at max_errors
DecodeFailed ==
    /\ pc = "received"
    /\ decode(data) = "None"
    /\ error_count' = ErrorCountAfterDecode(FALSE, error_count)
    /\ fails_in_row' = fails_in_row + 1
    /\ pc' = IF error_count' >= max_errors THEN "closed" ELSE "receive"
    /\ log' = IF error_count' >= max_errors
              THEN log \o SessionEndLog("break") ELSE log
    /\ data' = NoData
    /\ UNCHANGED <<count, direction, form, frame_count, correct_reps,
                   incorrect_reps, feedback, processed_img, sent, processed,
                   encoded, draw_raised, text_msg, other_vars>>

\* the tallies after a frame whose pipeline returned new_count, new_form
Tally(count_, new_count, new_form, correct, incorrect) ==
    IF new_count # count_
    THEN IF new_form = 1
         THEN [correct |-> correct + 1, incorrect |-> incorrect]
         ELSE [correct |-> correct, incorrect |-> incorrect + 1]
    ELSE [correct |-> correct, incorrect |-> incorrect]

\* faulty variant: the frame is sent whatever imencode returned
PcEncodeFailSends(raised, success) == "send_bytes"

\* faulty variant: an exception of the pipeline ends the session
PcRaiseCloses(raised, success) ==
    IF raised THEN "closed" ELSE IF success THEN "send_bytes" ELSE "receive"

\* where the loop goes after the pipeline and the encoder: a pipeline
\* exception is caught and an error image encoded; a failed encode skips
\* the send (continue)
PcAfterEncode(raised, success) ==
    IF success THEN "send_bytes" ELSE "receive"

\* the frames on which process_frame gets as far as draw_ui
DrawsUi(img) == img.kind \in {"pose", "nopose", "angle_error"}

\* the frame decodes: reset the error counter, run the pipeline, adopt its
\* state, encode the image it returned
Pipeline ==
    /\ pc = "received"
    /\ decode(data) = "image"
    /\ error_count' = ErrorCountAfterDecode(TRUE, error_count)
    /\ fails_in_row' = 0
    /\ \E draw \in {"ok", "raise"}, success \in BOOLEAN :
         LET frame == [data EXCEPT !.draw = draw]
         IN
         \E r \in {process_frame(frame, count, direction, form)} :
         LET t == Tally(count, r.count, r.form, correct_reps, incorrect_reps)
         IN  /\ IF r.raised
                THEN /\ processed_img' = "Processing Error"
                     /\ feedback' = "Error"
                     /\ UNCHANGED <<count, direction, form, correct_reps,
                                    incorrect_reps>>
                ELSE /\ processed_img' = r.img
                     /\ feedback' = r.feedback
                     /\ count' = r.count
                     /\ direction' = r.direction
                     /\ form' = r.form
                     /\ correct_reps' = t.correct
                     /\ incorrect_reps' = t.incorrect
             /\ draw_raised' = (draw = "raise" /\ DrawsUi(frame))
             /\ encoded' = IF success THEN "ok" ELSE "failed"
             /\ pc' = PcAfterEncode(r.raised, success)
    /\ data' = NoData
    /\ UNCHANGED <<frame_count, sent, text_msg, log, other_vars>>

ProcessFrame ==
    /\ Pipeline
    /\ processed' = processed + 1

\* await websocket.send_bytes(...), then the telemetry decision
SendBytes ==
    /\ pc = "send_bytes"
    /\ sent' = "bytes"
    /\ pc' = IF frame_count % TelemetryEvery = 0 THEN "send_text"
                                                  ELSE "receive"
    /\ UNCHANGED <<data, count, direction, form, frame_count, error_count,
                   correct_reps, incorrect_reps, feedback, processed_img,
                   processed, fails_in_row, encoded, draw_raised, text_msg,
                   log, other_vars>>

\* faulty variant: the record carries count as it is, half-reps included
json_data_RawCount(count_, feedback_, form_, correct, incorrect) ==
    [count |-> count_, feedback |-> feedback_, form |-> form_,
     correct_reps |-> correct, incorrect_reps |-> incorrect]

\* json_data: "count": int(count), with count in half-reps
json_data(count_, feedback_, form_, correct, incorrect) ==
    [count |-> count_ \div (2 * Half), feedback |-> feedback_, form |-> form_,
     correct_reps |-> correct, incorrect_reps |-> incorrect]

\* await websocket.send_text(json.dumps(json_data))
SendText ==
    /\ pc = "send_text"
    /\ sent' = "text"
    /\ text_msg' = <<json_data(count, feedback, form, correct_reps,
                               incorrect_reps)>>
    /\ pc' = "receive"
    /\ UNCHANGED <<data, count, direction, form, frame_count, error_count,
                   correct_reps, incorrect_reps, feedback, processed_img,
                   processed, fails_in_row, encoded, draw_raised, log,
                   other_vars>>

\* faulty variant: a failed send is skipped like a failed encode
SendFailContinues ==
    /\ pc \in {"send_bytes", "send_text"}
    /\ pc' = "receive"
    /\ UNCHANGED <<data, count, direction, form, frame_count, error_count,
                   correct_reps, incorrect_reps, feedback, processed_img,
                   sent, processed, fails_in_row, encoded, draw_raised,
                   text_msg, log, other_vars>>

\* send_bytes or send_text raises
SendFail ==
    /\ pc \in {"send_bytes", "send_text"}
    /\ pc' = "closed"
    /\ \E exc \in Exceptions : log' = log \o SessionEndLog(InnerExcept(exc))
    /\ UNCHANGED <<data, count, direction, form, frame_count, error_count,
                   correct_reps, incorrect_reps, feedback, processed_img,
                   sent, processed, fails_in_row, encoded, draw_raised,
                   text_msg, other_vars>>

Next ==
    \/ Receive
    \/ ReceiveFail
    \/ DecodeFailed
    \/ ProcessFrame
    \/ SendBytes
    \/ SendText
    \/ SendFail

Spec == Init /\ [][Next]_vars

\* ------------------------------------------- the rep state machine alone
\* Successive frames with landmarks, run through the pipeline from the
\* state of a fresh session; hist keeps the last MaxRun of them, each with
\* the rep state it was applied to and the feedback it produced.
InitRep == Init

Last(h, n) == IF Len(h) <= n THEN h ELSE SubSeq(h, Len(h) - n + 1, Len(h))

StepRep ==
    /\ count < MaxCount
    /\ \E e \in ElbowAngles, s \in ShoulderAngles, h \in HipAngles :
         \E r \in {process_frame(FrameOf("pose", e, s, h), count, direction,
                                 form)} :
             /\ count' = r.count
             /\ direction' = r.direction
             /\ form' = r.form
             /\ feedback' = r.feedback
             /\ hist' = Last(Append(hist,
                                    [elbow |-> e, shoulder |-> s, hip |-> h,
                                     count |-> count, direction |-> direction,
                                     form |-> form, feedback |-> r.feedback]),
                             MaxRun)
    /\ UNCHANGED <<pc, data, frame_count, error_count, correct_reps,
                   incorrect_reps, processed_img, sent, processed,
                   fails_in_row, encoded, draw_raised, text_msg, log, call,
                   conc_vars>>

NextRep == StepRep

SpecRep == InitRep /\ [][NextRep]_vars

\* the rep state after the i-th remembered frame
CountAfter(i) == IF i = Len(hist) THEN count ELSE hist[i + 1].count
DirectionAfter(i) == IF i = Len(hist) THEN direction ELSE hist[i + 1].direction

IsDown(f) == f.elbow <= 90 /\ f.hip > 160
IsUp(f) == f.elbow > 160 /\ f.shoulder > 40 /\ f.hip > 160

\* ------------------------------------------------- the pipeline alone
\* process_frame called on every kind of frame, from the rep state the
\* calls before it returned (adopted as the session does, unless the call
\* raised); call keeps the arguments and the result of the last call.
AngleErrors ==
    {[FrameOf("angle_error", e, s, h) EXCEPT !.fail_at = n] :
        e \in ElbowAngles, s \in ShoulderAngles, h \in HipAngles,
        n \in 1..4}
Poses ==
    {FrameOf("pose", e, s, h) :
        e \in ElbowAngles, s \in ShoulderAngles, h \in HipAngles}
PipeFrames ==
    LET fs == Poses \cup AngleErrors
              \cup {FrameOf(k, 0, 0, 0) :
                      k \in {"bad", "nopose", "detector_error", "raise"}}
    IN  fs \cup {[f EXCEPT !.draw = "raise"] : f \in fs}

InitPipe == Init

StepPipe ==
    /\ count < MaxCount
    /\ \E img \in PipeFrames :
         \E r \in {process_frame(img, count, direction, form)} :
             /\ call' = <<[img |-> img, count |-> count,
                           direction |-> direction, form |-> form,
                           ret |-> r]>>
             /\ IF r.raised
                THEN UNCHANGED <<count, direction, form, feedback,
                                 processed_img>>
                ELSE /\ count' = r.count
                     /\ direction' = r.direction
                     /\ form' = r.form
                     /\ feedback' = r.feedback
                     /\ processed_img' = r.img
    /\ UNCHANGED <<pc, data, frame_count, error_count, correct_reps,
                   incorrect_reps, sent, processed, fails_in_row, hist,
                   encoded, draw_raised, text_msg, log, conc_vars>>

NextPipe == StepPipe

SpecPipe == InitPipe /\ [][NextPipe]_vars

\* ------------------------------------ a session whose client keeps sending
\* The session loop with a client that never stops sending: a frame is
\* always there to receive. The loop reads frame_count only modulo the
\* telemetry period, so the counter is kept modulo that period; frames that
\* would take count past MaxCount are left out; processed is not kept. The
\* coroutine is always resumed when its await completes: the loop as a
\* whole is weakly fair.
InitLive == Init

LiveReceive ==
    /\ pc = "receive"
    /\ \E d \in Frames :
         /\ process_frame(d, count, direction, form).count <= MaxCount
         /\ data' = d
    /\ frame_count' = (frame_count % TelemetryEvery) + 1
    /\ pc' = "received"
    /\ sent' = "none"
    /\ encoded' = "none"
    /\ draw_raised' = FALSE
    /\ text_msg' = <<>>
    /\ UNCHANGED <<count, direction, form, error_count, correct_reps,
                   incorrect_reps, feedback, processed_img, processed,
                   fails_in_row, log, other_vars>>

LiveProcess ==
    /\ Pipeline
    /\ UNCHANGED processed

NextLive ==
    \/ LiveReceive
    \/ ReceiveFail
    \/ DecodeFailed
    \/ LiveProcess
    \/ SendBytes
    \/ SendText
    \/ SendFail

SpecLive == InitLive /\ [][NextLive]_vars /\ WF_vars(NextLive)

\* ------------------------------------ sessions sharing the pose detector
\* Two sessions on the one event loop, the pipeline taken call by call.
\* The detector keeps what findPose found (results) and what findPosition
\* listed (lmList); findAngle is given landmark ids only and reads the
\* list the detector holds. A session runs until it reaches an await; the
\* event loop then resumes any session.
ConcFrames == SessionPoses \cup {FrameOf("nopose", 0, 0, 0)}

\* the positions at which a session is suspended in an await
\* faulty variant: the session is also suspended between findPose and
\* findPosition
Yields_InsidePipeline(p) == p \in {"receive", "send_bytes", "findPosition"}

Yields(p) == p \in {"receive", "send_bytes"}

\* session s moves to position p: it keeps running unless p is an await
Resume(s, p) ==
    \E t \in Sessions : running' = IF Yields(p) THEN t ELSE s

\* detector.findPosition: the landmarks of the results the detector holds
Landmarks(results) ==
    IF results.kind = "pose"
    THEN <<[elbow |-> results.elbow, shoulder |-> results.shoulder,
            hip |-> results.hip]>>
    ELSE <<>>

\* receive_bytes returns a frame; it decodes and process_frame is entered
ConcReceive(s) ==
    /\ running = s
    /\ sess[s].pc = "receive"
    /\ \E f \in ConcFrames :
         /\ process_frame(f, sess[s].count, sess[s].direction,
                          sess[s].form).count <= MaxCount
         /\ sess' = [sess EXCEPT ![s] =
                        [@ EXCEPT !.pc = "findPose", !.img = f,
                                  !.lmList = <<>>, !.elbow_angle = 0,
                                  !.shoulder_angle = 0, !.hip_angle = 0]]
    /\ Resume(s, "findPose")
    /\ UNCHANGED detector

\* img_copy = detector.findPose(img_copy, draw=True)
FindPose(s) ==
    /\ running = s
    /\ sess[s].pc = "findPose"
    /\ detector' = [detector EXCEPT !.results = sess[s].img]
    /\ sess' = [sess EXCEPT ![s].pc = "findPosition"]
    /\ Resume(s, "findPosition")

\* lmList = detector.findPosition(img_copy, draw=False); if len(lmList) != 0
FindPosition(s) ==
    /\ running = s
    /\ sess[s].pc = "findPosition"
    /\ LET lm == Landmarks(detector.results)
           p == IF Len(lm) # 0 THEN "findAngle_elbow" ELSE "send_bytes"
       IN  /\ detector' = [detector EXCEPT !.lmList = lm]
           /\ sess' = [sess EXCEPT ![s] = [@ EXCEPT !.lmList = lm, !.pc = p]]
           /\ Resume(s, p)

\* the three detector.findAngle calls
FindAngle(s) ==
    /\ running = s
    /\ sess[s].pc \in {"findAngle_elbow", "findAngle_shoulder",
                       "findAngle_hip"}
    /\ detector.lmList # <<>>
    /\ LET lm == detector.lmList[1]
           p == CASE sess[s].pc = "findAngle_elbow" -> "findAngle_shoulder"
                  [] sess[s].pc = "findAngle_shoulder" -> "findAngle_hip"
                  [] OTHER -> "update"
       IN  /\ sess' = [sess EXCEPT ![s] =
                          CASE @.pc = "findAngle_elbow" ->
                                 [@ EXCEPT !.elbow_angle = lm.elbow, !.pc = p]
                            [] @.pc = "findAngle_shoulder" ->
                                 [@ EXCEPT !.shoulder_angle = lm.shoulder,
                                           !.pc = p]
                            [] OTHER ->
                                 [@ EXCEPT !.hip_angle = lm.hip, !.pc = p]]
           /\ Resume(s, p)
    /\ UNCHANGED detector

\* update_feedback_and_count on the angles found, the state adopted by the
\* session, the image drawn and encoded
ConcUpdate(s) ==
    /\ running = s
    /\ sess[s].pc = "update"
    /\ LET u == update_feedback_and_count(sess[s].elbow_angle,
                     sess[s].shoulder_angle, sess[s].hip_angle,
                     sess[s].direction, sess[s].count, sess[s].form)
       IN  sess' = [sess EXCEPT ![s] =
                      [@ EXCEPT !.count = u.count, !.direction = u.direction,
                                !.form = u.form, !.pc = "send_bytes"]]
    /\ Resume(s, "send_bytes")
    /\ UNCHANGED detector

\* await websocket.send_bytes(...) completes; back to receive_bytes
ConcSend(s) ==
    /\ running = s
    /\ sess[s].pc = "send_bytes"
    /\ sess' = [sess EXCEPT ![s].pc = "receive"]
    /\ Resume(s, "receive")
    /\ UNCHANGED detector

single_vars == <<pc, data, count, direction, form, frame_count, error_count,
                 correct_reps, incorrect_reps, feedback, processed_img, sent,
                 processed, fails_in_row, hist, encoded, draw_raised,
                 text_msg, log, call>>

InitConc == Init

NextConc ==
    \E s \in Sessions :
        /\ \/ ConcReceive(s)
           \/ FindPose(s)
           \/ FindPosition(s)
           \/ FindAngle(s)
           \/ ConcUpdate(s)
           \/ ConcSend(s)
        /\ UNCHANGED single_vars

SpecConc == InitConc /\ [][NextConc]_vars

\* the positions inside process_frame
InPipeline(p) ==
    p \in {"findPose", "findPosition", "findAngle_elbow",
           "findAngle_shoulder", "findAngle_hip", "update"}

\* ---------------------------------------------------------------- claims

\* C1: within a session count never decreases, and one step of the session
\* (hence one received frame, whatever path it takes) changes count by 0 or
\* by exactly one half-rep, never by two.
C1_CountStep == [][count' = count \/ count' = count + Half]_vars

C1_Witness == count = 3 /\ pc = "send_bytes" /\ frame_count > processed

\* C2: a frame with elbow > 160, shoulder > 40, hip > 160 processed while
\* form = 0 sets form to 1, and no later step of the session (whatever the
\* frame: other angles, no pose, angle error, pipeline error, decode or
\* encode failure) takes form back from 1.
C2_FormSticky ==
    [][ /\ (form = 1 => form' = 1)
        /\ (pc = "received" /\ data.kind = "pose" /\ form = 0
            /\ data.elbow > 160 /\ data.shoulder > 40 /\ data.hip > 160
               => form' = 1) ]_vars

C2_Witness ==
    form = 1 /\ feedback = "Processing error" /\ error_count = 1
    /\ pc = "receive"

\* C3: from form = 1, direction = 0, count = c, a down-condition frame
\* followed by an up-condition frame gives count = c + 1.0 (two half-reps)
\* and direction = 0, with feedback "Good - Push Up" then "Good - Go Down".
C3_FullRep ==
    \A i \in 1..(Len(hist) - 1) :
        (hist[i].form = 1 /\ hist[i].direction = 0
         /\ IsDown(hist[i]) /\ IsUp(hist[i + 1]))
        => /\ CountAfter(i + 1) = hist[i].count + 2 * Half
           /\ DirectionAfter(i + 1) = 0
           /\ hist[i].feedback = "Good - Push Up"
           /\ hist[i + 1].feedback = "Good - Go Down"

C3_Witness ==
    /\ Len(hist) >= 2
    /\ LET i == Len(hist) - 1
       IN  /\ hist[i].form = 1 /\ hist[i].direction = 0 /\ hist[i].count = 0
           /\ IsDown(hist[i]) /\ IsUp(hist[i + 1])
    /\ count = 2

\* C4: with form = 1, a run of consecutive down-condition frames adds one
\* half-rep in total when it starts with direction = 0, on its first frame
\* only, and nothing when it starts with direction = 1; a run of
\* up-condition frames adds one half-rep when it starts with direction = 1,
\* on its first frame only, and nothing when it starts with direction = 0.
C4_RunCountsOnce ==
    \A i \in 1..Len(hist) : \A j \in i..Len(hist) :
        /\ (hist[i].form = 1 /\ \A k \in i..j : IsDown(hist[k]))
           => /\ CountAfter(j) =
                    hist[i].count + (IF hist[i].direction = 0 THEN Half ELSE 0)
              /\ CountAfter(j) = CountAfter(i)
        /\ (hist[i].form = 1 /\ \A k \in i..j : IsUp(hist[k]))
           => /\ CountAfter(j) =
                    hist[i].count + (IF hist[i].direction = 1 THEN Half ELSE 0)
              /\ CountAfter(j) = CountAfter(i)

C4_Witness ==
    /\ Len(hist) = 3
    /\ \A k \in 1..3 : IsDown(hist[k])
    /\ hist[1].form = 1 /\ hist[1].direction = 0
    /\ count = hist[1].count + Half

\* C5: a frame whose hip angle is <= 160 leaves count and direction
\* unchanged; its feedback is "Fix Form" when form = 1 and "Get into
\* starting position" when form = 0.
C5_HipGate ==
    \A i \in 1..Len(hist) :
        hist[i].hip <= 160
        => /\ CountAfter(i) = hist[i].count
           /\ DirectionAfter(i) = hist[i].direction
           /\ hist[i].feedback =
                 (IF hist[i].form = 1 THEN "Fix Form"
                                      ELSE "Get into starting position")

C5_Witness ==
    /\ Len(hist) >= 1
    /\ LET f == hist[Len(hist)]
       IN  f.hip <= 160 /\ f.elbow <= 90 /\ f.form = 1 /\ f.direction = 0
    /\ feedback = "Fix Form"

\* C6: the decode-error ceiling closes the session exactly on the frame
\* that is the 10th in a row to fail to decode; a frame that decodes sets
\* the error counter to 0 and never closes the session, so after 9
\* failures and a success 10 more failures in a row are needed.
C6_DecodeCeiling ==
    [][ /\ (pc = "received" /\ data.kind = "bad"
               => (pc' = "closed" <=> fails_in_row' = 10))
        /\ (pc = "received" /\ data.kind # "bad"
               => error_count' = 0 /\ pc' # "closed")
        /\ (pc # "closed" => fails_in_row < 10) ]_vars

\* 9 failures, one success, 10 failures: closed on the 20th frame
C6_Witness ==
    /\ pc = "closed"
    /\ frame_count = 20
    /\ processed = 1
    /\ fails_in_row = 10

\* C7: a telemetry text message is sent exactly on the 10th, 20th, ...
\* frame that was decoded and processed (decode-failed frames not counted)
\* and on no other frame.
C7_TelemetryEveryTenthProcessed ==
    /\ (sent = "text" => processed % 10 = 0)
    /\ (sent = "bytes" /\ processed % 10 = 0
           => pc \in {"send_text", "closed"})

\* C8: the tallies advance only when the whole-number part of count
\* advances, one of them by 1, so correct_reps + incorrect_reps is the
\* integer part of count.
C8_TalliesEqualWholeReps == correct_reps + incorrect_reps = count \div 2

\* C9: a frame in which the detector finds no landmarks gives feedback
\* "Move into frame", leaves count, direction and form as they were, and
\* the frame that draw_ui has drawn on is returned and goes on to be
\* encoded and sent (the send is skipped only if the encoder fails; the
\* drawing is partial only if a drawing call raised).
C9_NoPose ==
    [][ (pc = "received" /\ data.kind = "nopose")
        => /\ feedback' = "Move into frame"
           /\ UNCHANGED <<count, direction, form>>
           /\ processed_img' = (IF draw_raised' THEN "ui_partial" ELSE "ui")
           /\ pc' \in {"send_bytes", "receive"} ]_vars

C9_Witness ==
    /\ feedback = "Move into frame"
    /\ processed_img = "ui"
    /\ pc = "send_bytes"
    /\ count = 1 /\ direction = 1 /\ form = 1

C11_RenderFailure ==
    [][ /\ (pc = "received" /\ draw_raised')
           => /\ processed_img' = "ui_partial"
              /\ IF data.kind = "pose"
                 THEN LET u == update_feedback_and_count(
                                   data.elbow, data.shoulder, data.hip,
                                   direction, count, form)
                      IN  /\ count' = u.count
                          /\ direction' = u.direction
                          /\ form' = u.form
                          /\ feedback' = u.feedback
                 ELSE UNCHANGED <<count, direction, form>>
              /\ pc' = (IF encoded' = "ok" THEN "send_bytes" ELSE "receive")
        /\ (pc = "send_bytes" /\ draw_raised /\ sent' = "bytes")
           => pc' \in {"send_text", "receive"} ]_vars

\* a rep completed on a frame whose overlay failed, and that frame sent
C11_Witness ==
    /\ draw_raised
    /\ processed_img = "ui_partial"
    /\ feedback = "Good - Go Down"
    /\ count = 2
    /\ sent = "bytes"

\* C12: when the encoder fails nothing is sent for the frame, neither the
\* binary frame nor a telemetry text, the decode-error counter is not
\* incremented, and the session goes on to the next receive: an encode
\* failure never closes the session.
C12_EncodeFailureSkips ==
    [][ /\ (pc = "received" /\ encoded' = "failed")
           => /\ pc' = "receive"
              /\ error_count' <= error_count
              /\ error_count' = 0
        /\ encoded' = "failed" => sent' = "none" /\ text_msg' = <<>>
        /\ (encoded = "failed" /\ pc' = "closed") => pc = "receive" ]_vars

\* the encoder failed on a frame that was due a telemetry message
C12_Witness ==
    /\ encoded = "failed"
    /\ frame_count = 10
    /\ pc = "receive"
    /\ sent = "none"

\* C13: every way a session ends logs the session summary with frames,
\* rep count and duration exactly once.
IsSessionStats(line) == line = "Session Stats: frames, reps, duration"

C13_SummaryOnce ==
    pc = "closed" => Len(SelectSeq(log, IsSessionStats)) = 1

\* C14: a failed receive or a failed send ends the session: a step from an
\* await either completes it (a frame received, a message sent) or closes
\* the session, and a closed session receives nothing, sends nothing and
\* never goes back into the loop.
C14_NoRetry ==
    [][ /\ pc = "receive" => (pc' = "received" \/ pc' = "closed")
        /\ pc = "send_bytes" => (sent' = "bytes" \/ pc' = "closed")
        /\ pc = "send_text" => (sent' = "text" \/ pc' = "closed")
        /\ pc = "closed" => UNCHANGED <<pc, data, frame_count, sent,
                                        text_msg>> ]_vars

\* the send of the telemetry text failed after the binary frame went out
C14_Witness ==
    /\ pc = "closed"
    /\ sent = "bytes"
    /\ frame_count = 10
    /\ log # <<>>

\* C18: direction is the parity of the half-reps awarded: 1 exactly when
\* count has a half, 0 exactly when count is whole; count becomes whole
\* only on an up-condition frame and gets a half only on a down-condition
\* frame.
C18_DirectionIsParity ==
    [][ /\ direction' = count' % 2
        /\ count' # count
           => /\ pc = "received" /\ data.kind = "pose"
              /\ IF count' % 2 = 0 THEN IsUp(data) ELSE IsDown(data) ]_vars

C18_Witness == count = 3 /\ direction = 1 /\ pc = "send_bytes"

\* C19: count > 0 implies form = 1, and the incorrect tally is never
\* incremented.
C19_NeverIncorrect == (count > 0 => form = 1) /\ incorrect_reps = 0

C19_Witness == count = 4 /\ correct_reps > 0 /\ feedback = "Fix Form"

\* C20: a telemetry text is sent right after the binary frame of the same
\* inbound frame was sent, with no receive in between, never for a frame
\* whose binary frame was not sent, and it carries int(count), form and the
\* tallies as the frame's state update left them.
C20_TelemetryFollowsFrame ==
    [][ /\ (sent' = "text" /\ sent # "text")
           => sent = "bytes" /\ pc = "send_text" /\ encoded = "ok"
        /\ sent' = "text"
           => text_msg' = <<[count |-> count' \div 2, feedback |-> feedback',
                             form |-> form', correct_reps |-> correct_reps',
                             incorrect_reps |-> incorrect_reps']>>
        /\ text_msg' # <<>> => sent' = "text"
        /\ pc = "send_text" => UNCHANGED <<count, direction, form,
                                           correct_reps, incorrect_reps>>
      ]_vars

\* a telemetry text whose count is truncated: 1.5 reps reported as 1
C20_Witness ==
    /\ sent = "text"
    /\ count = 3
    /\ text_msg # <<>>
    /\ text_msg[1].count = 1

\* C17: when landmarks are found and an angle computation or the state
\* update raises, process_frame returns normally with feedback "Error
\* detecting pose" and the count, direction and form it was given; the
\* angles computed before the failure are kept, the others stay 0, and
\* draw_ui has drawn on the frame returned.
C17_AngleErrorContained ==
    call # <<>> /\ call[1].img.kind = "angle_error"
    => LET c == call[1]
           r == c.ret
       IN  /\ ~r.raised
           /\ r.feedback = "Error detecting pose"
           /\ r.count = c.count
           /\ r.direction = c.direction
           /\ r.form = c.form
           /\ r.elbow_angle = (IF c.img.fail_at >= 2 THEN c.img.elbow ELSE 0)
           /\ r.shoulder_angle =
                 (IF c.img.fail_at >= 3 THEN c.img.shoulder ELSE 0)
           /\ r.hip_angle = (IF c.img.fail_at >= 4 THEN c.img.hip ELSE 0)
           /\ r.img = (IF c.img.draw = "raise" THEN "ui_partial" ELSE "ui")

\* the hip angle fails on a down frame a rep into the session: elbow and
\* shoulder are shown, the hip is 0, the rep state stays
C17_Witness ==
    /\ call # <<>>
    /\ call[1].img.kind = "angle_error"
    /\ call[1].img.fail_at = 3
    /\ call[1].img.elbow = 90 /\ call[1].img.hip = 161
    /\ call[1].ret.elbow_angle = 90 /\ call[1].ret.hip_angle = 0
    /\ call[1].direction = 0 /\ call[1].form = 1
    /\ count = 2 /\ direction = 0

\* C15: whenever a frame has been received, eventually a binary frame is
\* sent or the session terminates, the client sending frames for ever: no
\* execution consumes frames for ever and sends nothing.
C15_SentOrClosed ==
    [](pc = "received" => <>(sent = "bytes" \/ pc = "closed"))

\* the only silent executions are those on which the encoder keeps failing
SilentOnlyOnEncodeFailure ==
    [](pc = "received" => <>(sent = "bytes" \/ pc = "closed"
                             \/ encoded = "failed"))

\* C16: sessions sharing the detector change hands only at an await (a
\* receive or a send), at most one of them is inside the pipeline, the
\* landmarks and angles a session holds are those of its own current
\* frame, and a session's count, direction and form change only in its own
\* step, to what process_frame gives for its own frame.
C16_Isolation ==
    [][ /\ (running' # running
            => sess'[running].pc \in {"receive", "send_bytes"})
        /\ \A s \in Sessions, t \in Sessions :
             (InPipeline(sess'[s].pc) /\ InPipeline(sess'[t].pc)) => s = t
        /\ \A s \in Sessions :
             /\ InPipeline(sess'[s].pc)
                /\ sess'[s].pc \notin {"findPose", "findPosition"}
                => sess'[s].lmList = Landmarks(sess'[s].img)
             /\ sess'[s].pc = "update"
                => /\ sess'[s].elbow_angle = sess'[s].img.elbow
                   /\ sess'[s].shoulder_angle = sess'[s].img.shoulder
                   /\ sess'[s].hip_angle = sess'[s].img.hip
             /\ <<sess'[s].count, sess'[s].direction, sess'[s].form>>
                  # <<sess[s].count, sess[s].direction, sess[s].form>>
                => /\ running = s
                   /\ LET r == process_frame(sess[s].img, sess[s].count,
                                             sess[s].direction, sess[s].form)
                      IN  <<sess'[s].count, sess'[s].direction,
                            sess'[s].form>>
                          = <<r.count, r.direction, r.form>> ]_vars

\* one session is in the pipeline on its own frame while the other waits
\* for its send, having counted on a different frame
C16_Witness ==
    /\ sess[1].pc = "update" /\ sess[1].img.elbow = 90
    /\ sess[1].elbow_angle = 90
    /\ sess[2].pc = "send_bytes" /\ sess[2].img.elbow = 161
    /\ sess[2].count = 2 /\ sess[1].count = 1

====
